---- MODULE Spec2Model ----
(***************************************************************************)
(* Model of exif-fixr: the filename normalizer and sidecar resolver        *)
(* (utils.py), the dispatcher (processor.py), the image and video writers  *)
(* (handlers.py) and the batch driver (main.py).                           *)
(*                                                                         *)
(* A file name is a sequence of one-character strings; a directory is a    *)
(* function from the names present in it to their contents.  Python's      *)
(* None is NoPath for an Optional[Path] and NoDup for an Optional[int].    *)
(***************************************************************************)
EXTENDS Integers, Sequences, FiniteSets, TLC

VARIABLES files, call, dry_run, media_files, idx, success_count, calls, pc

vars == <<files, call, dry_run, media_files, idx, success_count, calls, pc>>

----------------------------------------------------------------------------
(* Bounds of the model *)

MaxNameLen == 6

MaxDirSize == 2

MaxBatch == 2

----------------------------------------------------------------------------
(* Characters and strings *)

Digits == {"0", "1", "2", "3", "4", "5", "6", "7", "8", "9"}

DigitVal(c) ==
  CASE c = "0" -> 0 [] c = "1" -> 1 [] c = "2" -> 2 [] c = "3" -> 3
    [] c = "4" -> 4 [] c = "5" -> 5 [] c = "6" -> 6 [] c = "7" -> 7
    [] c = "8" -> 8 [] c = "9" -> 9

DigitChar(n) ==
  CASE n = 0 -> "0" [] n = 1 -> "1" [] n = 2 -> "2" [] n = 3 -> "3"
    [] n = 4 -> "4" [] n = 5 -> "5" [] n = 6 -> "6" [] n = 7 -> "7"
    [] n = 8 -> "8" [] n = 9 -> "9"

NoPath == << >>

NoDup == -1

(* s[a:b] of Python, with 0-based a (inclusive) and b (exclusive) *)
Slice(s, a, b) == SubSeq(s, a + 1, b)

EndsWith(s, suffix) ==
  /\ Len(suffix) <= Len(s)
  /\ SubSeq(s, Len(s) - Len(suffix) + 1, Len(s)) = suffix

(* s.rfind(c): 0-based index of the last c in s, -1 when there is none *)
RFind(s, c) ==
  LET hits == {i \in 1..Len(s) : s[i] = c}
  IN  IF hits = {} THEN -1 ELSE (CHOOSE i \in hits : \A j \in hits : j <= i) - 1

(* int(digits) *)
RECURSIVE ParseInt(_)
ParseInt(ds) ==
  IF ds = << >> THEN 0
  ELSE 10 * ParseInt(SubSeq(ds, 1, Len(ds) - 1)) + DigitVal(ds[Len(ds)])

(* str(n) for n >= 0, as an f-string formats an int *)
RECURSIVE FormatInt(_)
FormatInt(n) ==
  IF n < 10 THEN <<DigitChar(n)>>
  ELSE FormatInt(n \div 10) \o <<DigitChar(n % 10)>>

LowerLetters ==
  <<"a", "b", "c", "d", "e", "f", "g", "h", "i", "j", "k", "l", "m",
    "n", "o", "p", "q", "r", "s", "t", "u", "v", "w", "x", "y", "z">>

UpperLetters ==
  <<"A", "B", "C", "D", "E", "F", "G", "H", "I", "J", "K", "L", "M",
    "N", "O", "P", "Q", "R", "S", "T", "U", "V", "W", "X", "Y", "Z">>

(* str.lower() and str.upper() *)
Lower(s) ==
  [i \in 1..Len(s) |->
     IF \E k \in 1..26 : UpperLetters[k] = s[i]
     THEN LowerLetters[CHOOSE k \in 1..26 : UpperLetters[k] = s[i]]
     ELSE s[i]]

Upper(s) ==
  [i \in 1..Len(s) |->
     IF \E k \in 1..26 : LowerLetters[k] = s[i]
     THEN UpperLetters[CHOOSE k \in 1..26 : LowerLetters[k] = s[i]]
     ELSE s[i]]

(* str.replace(old, new): every non-overlapping occurrence, left to right; *)
(* an empty old matches before every character and at the end             *)
RECURSIVE Replace(_, _, _)
Replace(s, old, new) ==
  IF old = << >> THEN
    IF s = << >> THEN new
    ELSE new \o <<s[1]>> \o
         (IF Len(s) = 1 THEN new ELSE Replace(SubSeq(s, 2, Len(s)), old, new))
  ELSE IF Len(s) < Len(old) THEN s
  ELSE IF SubSeq(s, 1, Len(old)) = old
       THEN new \o Replace(SubSeq(s, Len(old) + 1, Len(s)), old, new)
  ELSE <<s[1]>> \o Replace(SubSeq(s, 2, Len(s)), old, new)

----------------------------------------------------------------------------
(* utils.py: normalize_filename *)

(* os.path.splitext on a name without directory separators: the extension  *)
(* starts at the last dot, unless only dots precede that dot               *)
splitext(p) ==
  LET dotIndex == RFind(p, ".")
  IN  IF dotIndex > -1 /\ \E k \in 1..dotIndex : p[k] # "."
      THEN <<Slice(p, 0, dotIndex), Slice(p, dotIndex, Len(p))>>
      ELSE <<p, << >> >>

(* the match of \((\d+)\) that starts at 0-based position i of s: the      *)
(* 0-based position just after its ")" , or -1 when there is no match      *)
DupMatchEnd(s, i) ==
  LET ends == {j \in (i + 3)..Len(s) :
                 /\ s[i + 1] = "("
                 /\ s[j] = ")"
                 /\ \A k \in (i + 2)..(j - 1) : s[k] \in Digits}
  IN  IF ends = {} THEN -1 ELSE CHOOSE j \in ends : TRUE

(* re.search(dup_pattern + '$', base): start of the match, -1 for no match *)
PreMatchStart(base) ==
  LET starts == {i \in 0..(Len(base) - 1) : DupMatchEnd(base, i) = Len(base)}
  IN  IF starts = {} THEN -1 ELSE CHOOSE i \in starts : \A j \in starts : i <= j

(* re.search(dup_pattern, ext): start of the leftmost match, -1 for none   *)
PostMatchStart(ext) ==
  LET starts == {i \in 0..(Len(ext) - 1) : DupMatchEnd(ext, i) # -1}
  IN  IF starts = {} THEN -1 ELSE CHOOSE i \in starts : \A j \in starts : i <= j

(* int(match.group(1)) for the match starting at i *)
DupGroup(s, i) == ParseInt(Slice(s, i + 1, DupMatchEnd(s, i) - 1))

(* the three returns of normalize_filename, pre and post being the starts  *)
(* of pre_match and post_match                                             *)
NormalizeMatched(base, ext, pre, post) ==
  IF pre # -1 THEN <<Slice(base, 0, pre), ext, DupGroup(base, pre)>>
  ELSE IF post # -1 THEN <<base, Slice(ext, 0, post), DupGroup(ext, post)>>
  ELSE <<base, ext, NoDup>>

(* normalize_filename once base, ext = os.path.splitext(filename) is done  *)
NormalizeSplit(base, ext) ==
  NormalizeMatched(base, ext, PreMatchStart(base), PostMatchStart(ext))

normalize_filename(filename) ==
  \* the split is computed once and handed on as a pair
  LET Both(split) == NormalizeSplit(split[1], split[2])
  IN  Both(splitext(filename))

----------------------------------------------------------------------------
(* utils.py: find_matching_json *)

DotJson == <<".", "j", "s", "o", "n">>

EditedSuffix == <<"-", "e", "d", "i", "t", "e", "d">>

EditedLen == 7

NSuffix == <<"_", "n">>

(* `if dup_num`: None and 0 are both falsy *)
Truthy(dup_num) == dup_num # NoDup /\ dup_num # 0

(* base after the -edited suffix has been removed *)
StripEdited(base) ==
  IF EndsWith(base, EditedSuffix) THEN Slice(base, 0, Len(base) - EditedLen)
  ELSE base

(* Patterns with its first two entries in the other order *)
PatternsExtFirst(base, ext, dup_num) ==
  <<base \o ext \o DotJson, base \o DotJson>> \o
  (IF Truthy(dup_num)
   THEN <<base \o <<".">> \o Slice(ext, 1, Len(ext)) \o <<"(">> \o
            FormatInt(dup_num) \o <<")">> \o DotJson,
          base \o <<"(">> \o FormatInt(dup_num) \o <<")">> \o ext \o DotJson>>
   ELSE << >>)

(* possible_patterns without its None entries, in list order *)
Patterns(base, ext, dup_num) ==
  <<base \o DotJson, base \o ext \o DotJson>> \o
  (IF Truthy(dup_num)
   THEN <<base \o <<".">> \o Slice(ext, 1, Len(ext)) \o <<"(">> \o
            FormatInt(dup_num) \o <<")">> \o DotJson,
          base \o <<"(">> \o FormatInt(dup_num) \o <<")">> \o ext \o DotJson>>
   ELSE << >>)

(* the first loop probes the patterns themselves *)
ExactProbes(base, ext, dup_num) == Patterns(base, ext, dup_num)

(* every pattern with base replaced by base_without_last_digit *)
ReplaceAll(patterns, base, base_without_last_digit) ==
  [i \in 1..Len(patterns) |->
     Replace(patterns[i], base, base_without_last_digit)]

(* the second loop probes pattern.replace(base, base[:-1]) *)
TruncatedProbes(base, ext, dup_num) ==
  ReplaceAll(Patterns(base, ext, dup_num), base, Slice(base, 0, Len(base) - 1))

(* SuffixProbes with the trailing underscore left out of the probe *)
SuffixProbesWithoutUnderscore(base) ==
  IF EndsWith(base, NSuffix)
  THEN <<Slice(base, 0, Len(base) - 2) \o DotJson>>
  ELSE << >>

(* the `_n` probe, when base ends with _n *)
SuffixProbes(base) ==
  IF EndsWith(base, NSuffix)
  THEN <<Slice(base, 0, Len(base) - 2) \o <<"_">> \o DotJson>>
  ELSE << >>

(* a `for ... if exists: return` loop: the first probe present in dir *)
FirstExisting(probes, dir) ==
  LET hits == {i \in 1..Len(probes) : probes[i] \in dir}
  IN  IF hits = {} THEN NoPath
      ELSE probes[CHOOSE i \in hits : \A j \in hits : i <= j]

(* the three tiers in turn: the result of the first that has one *)
FirstTier(exact, trunc, suffix) ==
  IF exact # NoPath THEN exact
  ELSE IF trunc # NoPath THEN trunc
  ELSE suffix

(* find_matching_json from `# List of possible JSON filename patterns` on  *)
ResolveBase(base, ext, dup_num, dir) ==
  FirstTier(FirstExisting(ExactProbes(base, ext, dup_num), dir),
            FirstExisting(TruncatedProbes(base, ext, dup_num), dir),
            FirstExisting(SuffixProbes(base), dir))

(* find_matching_json once normalize_filename has returned n *)
ResolveNormalized(n, dir) == ResolveBase(StripEdited(n[1]), n[2], n[3], dir)

(* dir is the set of names present in media_path.parent *)
find_matching_json(name, dir) ==
  ResolveNormalized(normalize_filename(name), dir)

----------------------------------------------------------------------------
(* metadata.py: MediaMetadata, and the sidecar contents it is built from   *)

(* a MediaMetadata with neither timestamp nor coordinates *)
NoMetadata == [timestamp |-> FALSE, gps |-> "none"]

(* What a sidecar file holds: "valid" has photoTakenTime and geoData,      *)
(* "empty" is {}, "bad_gps" has a timestamp and a latitude that is not a   *)
(* number, "not_json" is not JSON (or not a JSON object).                  *)
SidecarKinds == {"valid", "empty", "bad_gps", "not_json"}

(* open(json_path), json.load and MediaMetadata(json_data): raised when    *)
(* one of them raises; content that is not a sidecar's does not parse      *)
ParseSidecar(content) ==
  CASE content = "valid"   -> [raised |-> FALSE,
                               md |-> [timestamp |-> TRUE, gps |-> "both"]]
    [] content = "empty"   -> [raised |-> FALSE, md |-> NoMetadata]
    [] content = "bad_gps" -> [raised |-> FALSE,
                               md |-> [timestamp |-> TRUE, gps |-> "bad"]]
    [] OTHER               -> [raised |-> TRUE, md |-> NoMetadata]

(* the metadata objects a handler is called with: gps is "both" when       *)
(* latitude and longitude are numbers, "lone" when one of them is None,    *)
(* "bad" when both are present and not numbers                             *)
Metadatas ==
  { NoMetadata,
    [timestamp |-> TRUE, gps |-> "none"],
    [timestamp |-> FALSE, gps |-> "lone"],
    [timestamp |-> TRUE, gps |-> "both"],
    [timestamp |-> TRUE, gps |-> "bad"] }

----------------------------------------------------------------------------
(* handlers.py: ImageHandler and VideoHandler *)

TempMark == <<"_", "t", "e", "m", "p">>

(* what the file system and the external tools do during one call *)
NoEnv == [ffmpeg |-> "none", replace_ok |-> TRUE, unlink_ok |-> TRUE,
          insert_ok |-> TRUE]

(* pathlib: Path.suffix and Path.stem of a name *)
PathSuffix(name) ==
  LET i == RFind(name, ".")
  IN  IF 0 < i /\ i < Len(name) - 1 THEN Slice(name, i, Len(name)) ELSE << >>

PathStem(name) ==
  LET i == RFind(name, ".")
  IN  IF 0 < i /\ i < Len(name) - 1 THEN Slice(name, 0, i) ELSE name

(* file_path.with_name(f"{file_path.stem}_temp{file_path.suffix}") *)
TempPath(name) == PathStem(name) \o TempMark \o PathSuffix(name)

(* a directory without one of its names *)
Without(dir_files, name) ==
  [f \in DOMAIN dir_files \ {name} |-> dir_files[f]]

(* a directory with name holding content *)
With(dir_files, name, content) ==
  [f \in DOMAIN dir_files \cup {name} |->
     IF f = name THEN content ELSE dir_files[f]]

(* image_apply_metadata with the dry_run test left out *)
image_apply_metadata_ignoring_dry_run(dir_files, name, md, dry, env) ==
  IF md.gps = "bad"
  THEN [files |-> dir_files, ret |-> "False", invoked |-> FALSE]
  ELSE IF env.insert_ok /\ name \in DOMAIN dir_files
  THEN [files |-> With(dir_files, name, "exif"), ret |-> "True",
        invoked |-> FALSE]
  ELSE [files |-> dir_files, ret |-> "False", invoked |-> FALSE]

(* ImageHandler.apply_metadata.  env.insert_ok: piexif.dump and            *)
(* piexif.insert succeed; inserting into a missing file never does.        *)
(* The result is the directory afterwards and what the call returned.      *)
image_apply_metadata(dir_files, name, md, dry, env) ==
  IF md.gps = "bad"
  THEN [files |-> dir_files, ret |-> "False", invoked |-> FALSE]
  ELSE IF dry
  THEN [files |-> dir_files, ret |-> "True", invoked |-> FALSE]
  ELSE IF env.insert_ok /\ name \in DOMAIN dir_files
  THEN [files |-> With(dir_files, name, "exif"), ret |-> "True",
        invoked |-> FALSE]
  ELSE [files |-> dir_files, ret |-> "False", invoked |-> FALSE]

(* VideoExcept with the unlink left out *)
VideoExceptWithoutUnlink(dir_files, temp_path, env) ==
  [files |-> dir_files, ret |-> "False", invoked |-> TRUE]

(* the except clause of VideoHandler.apply_metadata: the temporary file is *)
(* unlinked when it exists; an unlink that fails raises out of the handler *)
VideoExcept(dir_files, temp_path, env) ==
  IF temp_path \notin DOMAIN dir_files
  THEN [files |-> dir_files, ret |-> "False", invoked |-> TRUE]
  ELSE IF env.unlink_ok
  THEN [files |-> Without(dir_files, temp_path), ret |-> "False",
        invoked |-> TRUE]
  ELSE [files |-> dir_files, ret |-> "raised", invoked |-> TRUE]

(* VideoHandler.apply_metadata.  env.ffmpeg is what subprocess.run does:   *)
(* "cannot_start" raises, "nonzero" exits non-zero having written nothing, *)
(* "nonzero_partial" exits non-zero having written part of the output,     *)
(* "zero" exits 0 having written the output; ffmpeg -y overwrites an       *)
(* existing output file, and cannot exit 0 on a missing input.             *)
video_apply_metadata(dir_files, name, md, dry, env) ==
  LET temp_path == TempPath(name)
      has_args  == md.timestamp \/ md.gps \in {"both", "bad"}
      partial   == With(dir_files, temp_path, "partial")
      output    == With(dir_files, temp_path, "remux")
  IN  IF dry THEN [files |-> dir_files, ret |-> "True", invoked |-> FALSE]
      ELSE IF ~has_args
      THEN [files |-> dir_files, ret |-> "True", invoked |-> FALSE]
      ELSE IF env.ffmpeg = "nonzero_partial"
      THEN VideoExcept(partial, temp_path, env)
      ELSE IF env.ffmpeg = "zero" /\ name \in DOMAIN dir_files
      THEN IF env.replace_ok
           THEN [files |-> Without(With(output, name, "remux"), temp_path),
                 ret |-> "True", invoked |-> TRUE]
           ELSE VideoExcept(output, temp_path, env)
      ELSE VideoExcept(dir_files, temp_path, env)

----------------------------------------------------------------------------
(* processor.py: MediaProcessor *)

LowerImageFormats ==
  { <<".", "j", "p", "g">>, <<".", "j", "p", "e", "g">>,
    <<".", "h", "e", "i", "c">>, <<".", "p", "n", "g">>,
    <<".", "t", "i", "f">>, <<".", "t", "i", "f", "f">> }

LowerVideoFormats ==
  { <<".", "m", "p", "4">>, <<".", "m", "o", "v">>, <<".", "a", "v", "i">>,
    <<".", "m", "4", "v">> }

(* __init__ adds the upper-case copy of every extension *)
ImageFormats == LowerImageFormats \cup {Upper(ext) : ext \in LowerImageFormats}

VideoFormats == LowerVideoFormats \cup {Upper(ext) : ext \in LowerVideoFormats}

(* the media type of the handler, "none" for None *)
get_handler(name) ==
  LET suffix == Lower(PathSuffix(name))
  IN  IF suffix \in ImageFormats THEN "image"
      ELSE IF suffix \in VideoFormats THEN "video"
      ELSE "none"

(* the positional parameters of apply_metadata after self: file_path,      *)
(* metadata, dry_run                                                       *)
ApplyMetadataParams == 3

(* the arguments process_file passes: file_path, metadata, dry_run,        *)
(* output_dir                                                              *)
ProcessFileArgs == 4

(* handler.apply_metadata(...) called with nargs positional arguments:     *)
(* Python raises TypeError when they are not the parameters                *)
CallHandler(nargs, media_type, dir_files, name, md, dry, env) ==
  IF nargs # ApplyMetadataParams
  THEN [files |-> dir_files, ret |-> "raised", invoked |-> FALSE]
  ELSE IF media_type = "image"
  THEN image_apply_metadata(dir_files, name, md, dry, env)
  ELSE video_apply_metadata(dir_files, name, md, dry, env)

(* Caught with the except clause left out *)
Uncaught(r) == r

(* `except Exception: return False` around the body of process_file *)
Caught(r) == IF r.ret = "raised" THEN [r EXCEPT !.ret = "False"] ELSE r

(* `return False` with nothing done, and an exception raised in the body *)
Skip(dir_files) == [files |-> dir_files, ret |-> "False", invoked |-> FALSE]

Raise(dir_files) == [files |-> dir_files, ret |-> "raised", invoked |-> FALSE]

(* process_file from open(json_path) on: the sidecar is parsed and the     *)
(* handler is called with nargs arguments                                  *)
ParseAndApply(nargs, media_type, parsed, dir_files, name, dry, env) ==
  IF parsed.raised THEN Raise(dir_files)
  ELSE CallHandler(nargs, media_type, dir_files, name, parsed.md, dry, env)

(* process_file once the handler and the sidecar path are known *)
ProcessResolved(nargs, media_type, found, dir_files, name, dry, env) ==
  IF media_type = "none" THEN Skip(dir_files)
  ELSE IF found = NoPath \/ found \notin DOMAIN dir_files THEN Skip(dir_files)
  ELSE Caught(ParseAndApply(nargs, media_type, ParseSidecar(dir_files[found]),
                            dir_files, name, dry, env))

(* MediaProcessor.process_file; json_path is NoPath for None *)
process_file(dir_files, name, json_path, dry, env) ==
  ProcessResolved(ProcessFileArgs, get_handler(name),
                  IF json_path = NoPath
                  THEN find_matching_json(name, DOMAIN dir_files)
                  ELSE json_path,
                  dir_files, name, dry, env)

----------------------------------------------------------------------------
(* main.py: its own resolver and MediaProcessor, and the batch loop *)

MainImageFormats ==
  { <<".", "j", "p", "g">>, <<".", "j", "p", "e", "g">>,
    <<".", "h", "e", "i", "c">>, <<".", "p", "n", "g">> }

MainVideoFormats == LowerVideoFormats

main_get_handler(name) ==
  LET suffix == Lower(PathSuffix(name))
  IN  IF suffix \in MainImageFormats THEN "image"
      ELSE IF suffix \in MainVideoFormats THEN "video"
      ELSE "none"

(* main.py's find_matching_json: the exact candidates without {base}.json, *)
(* no -edited rule and no fallback *)
MainPatterns(base, ext, dup_num) ==
  <<base \o ext \o DotJson>> \o
  (IF Truthy(dup_num)
   THEN <<base \o <<".">> \o Slice(ext, 1, Len(ext)) \o <<"(">> \o
            FormatInt(dup_num) \o <<")">> \o DotJson,
          base \o <<"(">> \o FormatInt(dup_num) \o <<")">> \o ext \o DotJson>>
   ELSE << >>)

MainResolveNormalized(n, dir) ==
  FirstExisting(MainPatterns(n[1], n[2], n[3]), dir)

main_find_matching_json(name, dir) ==
  MainResolveNormalized(normalize_filename(name), dir)

(* the arguments main.py's process_file passes: file_path, metadata,       *)
(* dry_run                                                                 *)
MainProcessFileArgs == 3

(* main.py's MediaProcessor.process_file *)
main_process_file(dir_files, name, json_path, dry, env) ==
  ProcessResolved(MainProcessFileArgs, main_get_handler(name),
                  IF json_path = NoPath
                  THEN main_find_matching_json(name, DOMAIN dir_files)
                  ELSE json_path,
                  dir_files, name, dry, env)

(* the formats main walks for --type all, images or videos *)
FormatsOf(media_type) ==
  CASE media_type = "images" -> MainImageFormats
    [] media_type = "videos" -> MainVideoFormats
    [] OTHER -> MainImageFormats \cup MainVideoFormats

(* the names rglob('*' + ext) yields for the formats *)
Discovered(dir, formats) ==
  {f \in dir : \E ext \in formats : EndsWith(f, ext)}

(* media_files: one rglob after the other, the formats in any order and    *)
(* the names of one rglob in any order                                     *)
Orderings(names, formats) ==
  {q \in [1..Cardinality(names) -> names] :
     /\ \A i, j \in DOMAIN q : i # j => q[i] # q[j]
     /\ \A i, j, k \in DOMAIN q :
          (i < j /\ j < k /\ \E ext \in formats :
                                EndsWith(q[i], ext) /\ EndsWith(q[k], ext))
            => \E ext \in formats :
                  EndsWith(q[i], ext) /\ EndsWith(q[j], ext)}

----------------------------------------------------------------------------
(* The record of the last operation performed *)

NoCall ==
  [op |-> "none", name |-> << >>, dry |-> FALSE, ret |-> "none",
   path |-> NoPath, norm |-> << << >>, << >>, NoDup >>,
   md |-> NoMetadata, env |-> NoEnv, invoked |-> FALSE]

Idle ==
  /\ dry_run = FALSE
  /\ media_files = << >>
  /\ idx = 0
  /\ success_count = 0
  /\ calls = << >>
  /\ pc = "idle"

----------------------------------------------------------------------------
(* Specification of the normalizer: normalize_filename applied to an input *)
(* name drawn from the short names                                         *)

NameAlphabet == {"a", ".", "(", ")", "0", "1"}

DocExamples ==
  { <<"I", "M", "G", "_", "4", "8", "6", "9", ".", "H", "E", "I", "C">>,
    <<"I", "M", "G", "_", "4", "8", "6", "9", "(", "1", ")", ".", "H", "E", "I", "C">>,
    <<"I", "M", "G", "_", "4", "8", "6", "9", ".", "H", "E", "I", "C", "(", "1", ")">> }

(* the names of up to MaxNameLen characters that, as the names of exported *)
(* media do, begin with a character other than a dot                       *)
Filenames ==
  DocExamples \cup
    {s \in UNION {[1..n -> NameAlphabet] : n \in 1..MaxNameLen} : s[1] # "."}

InitNormalize ==
  /\ files = << >>
  /\ \E filename \in Filenames :
       call = [NoCall EXCEPT !.op = "input", !.name = filename]
  /\ Idle

Normalize ==
  /\ call.op = "input"
  /\ call' = [call EXCEPT !.op = "normalize_filename",
                          !.norm = normalize_filename(call.name)]
  /\ UNCHANGED <<files, dry_run, media_files, idx, success_count, calls, pc>>

NextNormalize == Normalize

SpecNormalize == InitNormalize /\ [][NextNormalize]_vars

----------------------------------------------------------------------------
(* Specification of the resolver: find_matching_json applied to an input   *)
(* name drawn from a pool of media names, in a directory that holds up to  *)
(* MaxDirSize of the sidecar names related to one of them                  *)

Jpg == <<".", "j", "p", "g">>

Counter0 == <<"(", "0", ")">>

Counter1 == <<"(", "1", ")">>

Marks ==
  { << >>, Counter0, Counter1, EditedSuffix,
    Counter1 \o EditedSuffix, EditedSuffix \o Counter1 }

Stems ==
  { <<"a">>, <<"a", "1">>, <<"j">>, <<"1">>, <<"a", "_", "n">>,
    <<"_", "n">>, <<"n", "_", "n">> }

MediaNames ==
  {stem \o mark \o Jpg : stem \in Stems, mark \in Marks}
    \cup { <<"a">>, <<"a">> \o Counter1, <<"a">> \o Jpg \o Counter1 }

SeqToSet(q) == {q[i] : i \in 1..Len(q)}

(* the sidecar names related to one media name: what the resolver probes   *)
(* for it, and the same forms built from its unstripped base, from its     *)
(* base less one character and with a counter of 0                         *)
Related(name) ==
  LET n    == normalize_filename(name)
      base == StripEdited(n[1])
      b    == Slice(base, 0, Len(base) - 1)
  IN  SeqToSet(ExactProbes(base, n[2], n[3]))
        \cup SeqToSet(TruncatedProbes(base, n[2], n[3]))
        \cup SeqToSet(SuffixProbes(base))
        \cup SeqToSet(Patterns(b, n[2], n[3]))
        \cup SeqToSet(Patterns(n[1], n[2], n[3]))
        \cup (IF n[3] = 0
              THEN { base \o <<".">> \o Slice(n[2], 1, Len(n[2])) \o
                       Counter0 \o DotJson,
                     base \o Counter0 \o n[2] \o DotJson }
              ELSE {})

RECURSIVE SubsetsUpTo(_, _)
SubsetsUpTo(S, k) ==
  IF k = 0 THEN {{}}
  ELSE LET smaller == SubsetsUpTo(S, k - 1)
       IN  smaller \cup {d \cup {x} : d \in smaller, x \in S}

Directories == UNION {SubsetsUpTo(Related(name), MaxDirSize) : name \in MediaNames}

Init ==
  /\ \E d \in Directories : files = [f \in d |-> "json"]
  /\ \E name \in MediaNames :
       call = [NoCall EXCEPT !.op = "input", !.name = name]
  /\ Idle

FindMatchingJson ==
  /\ call.op = "input"
  /\ call' = [call EXCEPT !.op = "find_matching_json",
                          !.path = find_matching_json(call.name, DOMAIN files)]
  /\ UNCHANGED <<files, dry_run, media_files, idx, success_count, calls, pc>>

Next == FindMatchingJson

Spec == Init /\ [][Next]_vars

----------------------------------------------------------------------------
(* Properties of the normalizer and the resolver *)

Resolved == call.op = "find_matching_json"

(* base, ext and dup_num of the resolved name, -edited removed from base *)
CallBase == StripEdited(normalize_filename(call.name)[1])

CallExt == normalize_filename(call.name)[2]

CallDup == normalize_filename(call.name)[3]

Dir == DOMAIN files

(* C1: when the sidecar {base}.json exists, find_matching_json returns it, *)
(* whichever other candidates exist.                                       *)
C1_BaseJsonWins ==
  (Resolved /\ CallBase \o DotJson \in Dir) => call.path = CallBase \o DotJson

C1_Witness ==
  /\ Resolved
  /\ CallBase \o DotJson \in Dir
  /\ CallBase \o CallExt \o DotJson \in Dir
  /\ CallExt # << >>
  /\ call.path = CallBase \o DotJson

(* the media name X E of which the resolved name X-edited E is the edited  *)
(* copy                                                                    *)
IsEditedName(name) == EndsWith(splitext(name)[1], EditedSuffix)

EditedOriginal(name) == StripEdited(splitext(name)[1]) \o splitext(name)[2]

(* C2: find_matching_json on X-edited E returns what it returns on X E,    *)
(* and never a sidecar named after the base X-edited.                      *)
C2_EditedResolvesAsOriginal ==
  (Resolved /\ IsEditedName(call.name)) =>
     /\ call.path = find_matching_json(EditedOriginal(call.name), Dir)
     /\ call.path \notin
          { splitext(call.name)[1] \o DotJson,
            splitext(call.name)[1] \o splitext(call.name)[2] \o DotJson }

(* the algorithm of the claim: split at the last dot; a counter ending the *)
(* base is removed from it; else a counter in the extension is removed     *)
(* from it, the rest of the extension kept                                 *)
ClaimSplit(p) ==
  LET dotIndex == RFind(p, ".")
  IN  IF dotIndex = -1 THEN <<p, << >> >>
      ELSE <<Slice(p, 0, dotIndex), Slice(p, dotIndex, Len(p))>>

ClaimNormalize(filename) ==
  LET base == ClaimSplit(filename)[1]
      ext  == ClaimSplit(filename)[2]
      pre  == PreMatchStart(base)
      post == PostMatchStart(ext)
  IN  IF pre # -1 THEN <<Slice(base, 0, pre), ext, DupGroup(base, pre)>>
      ELSE IF post # -1
      THEN <<base,
             Slice(ext, 0, post) \o Slice(ext, DupMatchEnd(ext, post), Len(ext)),
             DupGroup(ext, post)>>
      ELSE <<base, ext, NoDup>>

(* C3: normalize_filename computes the three-step algorithm on every name. *)
C3_NormalizeFollowsAlgorithm ==
  call.op = "normalize_filename" => call.norm = ClaimNormalize(call.name)

(* C8: when no exact candidate exists, the candidates rebuilt from base    *)
(* less its last character are probed in list order and the first that     *)
(* exists is returned.                                                     *)
C8_TruncationShortensBase ==
  LET b      == Slice(CallBase, 0, Len(CallBase) - 1)
      exact  == FirstExisting(ExactProbes(CallBase, CallExt, CallDup), Dir)
      wanted == FirstExisting(Patterns(b, CallExt, CallDup), Dir)
  IN  (Resolved /\ exact = NoPath) =>
        IF wanted # NoPath THEN call.path = wanted
        ELSE call.path \in {NoPath} \cup SeqToSet(SuffixProbes(CallBase))

(* C9: with a duplicate index n (0 included) and no counter-free candidate *)
(* on disk, the relocated-counter form is returned when it exists, else    *)
(* the counter-before-extension form when it exists.                       *)
C9_CounterCandidates ==
  LET counter   == <<"(">> \o FormatInt(CallDup) \o <<")">>
      relocated == CallBase \o <<".">> \o Slice(CallExt, 1, Len(CallExt)) \o
                     counter \o DotJson
      before    == CallBase \o counter \o CallExt \o DotJson
  IN  (/\ Resolved
       /\ CallDup # NoDup
       /\ CallBase \o DotJson \notin Dir
       /\ CallBase \o CallExt \o DotJson \notin Dir) =>
        /\ relocated \in Dir => call.path = relocated
        /\ (relocated \notin Dir /\ before \in Dir) => call.path = before

(* the exact match of another media name in the same directory *)
ExactMatch(name) ==
  LET n == normalize_filename(name)
  IN  FirstExisting(ExactProbes(StripEdited(n[1]), n[2], n[3]), Dir)

(* C10: a media file is never given the sidecar that is the exact match of *)
(* a media file with another base name.                                    *)
C10_NoCrossMatching ==
  (Resolved /\ call.path # NoPath) =>
     \A other \in MediaNames :
        StripEdited(normalize_filename(other)[1]) # CallBase =>
          \/ call.path # ExactMatch(other)
          \/ call.path \in SeqToSet(ExactProbes(CallBase, CallExt, CallDup))

(* the `_n` candidate of the resolved name: base less "_n", then "_.json" *)
NCandidate == Slice(CallBase, 0, Len(CallBase) - 2) \o <<"_">> \o DotJson

(* what the exact tier and the truncation tier alone return *)
EarlierTiers ==
  FirstTier(FirstExisting(ExactProbes(CallBase, CallExt, CallDup), Dir),
            FirstExisting(TruncatedProbes(CallBase, CallExt, CallDup), Dir),
            NoPath)

(* C12: the `_n` tier is subsumed by the truncation tier: whenever the `_n` *)
(* candidate {base minus "_n"}_.json exists an earlier tier has already     *)
(* returned, so find_matching_json returns what the exact tier and the      *)
(* truncation tier alone return.                                            *)
C12_SuffixTierSubsumed ==
  Resolved =>
     /\ call.path = EarlierTiers
     /\ (EndsWith(CallBase, NSuffix) /\ NCandidate \in Dir) =>
          EarlierTiers # NoPath

C12_Witness ==
  /\ Resolved
  /\ EndsWith(CallBase, NSuffix)
  /\ NCandidate \in Dir
  /\ CallBase \o DotJson \notin Dir
  /\ CallBase \o CallExt \o DotJson \notin Dir
  /\ call.path = NCandidate

----------------------------------------------------------------------------
(* Specification of the writers: any sequence of apply_metadata calls on   *)
(* an image, a video and the video's _temp sibling                         *)

Video == <<"v", ".", "m", "p", "4">>

Image == <<"b", ".", "j", "p", "g">>

VideoNames == {Video, TempPath(Video)}

(* os.replace is reached only after exit status 0, and unlink only on a   *)
(* failure: an outcome that cannot be consulted is left at TRUE            *)
VideoEnvs ==
  {env \in [ffmpeg : {"cannot_start", "nonzero", "nonzero_partial", "zero"},
            replace_ok : BOOLEAN, unlink_ok : BOOLEAN, insert_ok : {TRUE}] :
     /\ env.ffmpeg # "zero" => env.replace_ok
     /\ (env.ffmpeg = "zero" /\ env.replace_ok) => env.unlink_ok}

ImageEnvs ==
  [ffmpeg : {"none"}, replace_ok : {TRUE}, unlink_ok : {TRUE},
   insert_ok : BOOLEAN]

InitHandlers ==
  /\ \/ files = (Video :> "orig") @@ (Image :> "orig")
     \/ files = (Video :> "orig") @@ (Image :> "orig") @@
                  (TempPath(Video) :> "other")
  /\ call = NoCall
  /\ Idle

ImageApply(name, md, dry, env) ==
  \E r \in {image_apply_metadata(files, name, md, dry, env)} :
      /\ files' = r.files
      /\ call' = [NoCall EXCEPT !.op = "image_apply_metadata", !.name = name,
                                !.dry = dry, !.md = md, !.env = env,
                                !.ret = r.ret, !.invoked = r.invoked]
      /\ UNCHANGED <<dry_run, media_files, idx, success_count, calls, pc>>

VideoApply(name, md, dry, env) ==
  \E r \in {video_apply_metadata(files, name, md, dry, env)} :
      /\ files' = r.files
      /\ call' = [NoCall EXCEPT !.op = "video_apply_metadata", !.name = name,
                                !.dry = dry, !.md = md, !.env = env,
                                !.ret = r.ret, !.invoked = r.invoked]
      /\ UNCHANGED <<dry_run, media_files, idx, success_count, calls, pc>>

NextHandlers ==
  \/ \E md \in Metadatas, dry \in BOOLEAN, env \in ImageEnvs :
        ImageApply(Image, md, dry, env)
  \/ \E name \in VideoNames, md \in Metadatas, dry \in BOOLEAN,
        env \in VideoEnvs :
        VideoApply(name, md, dry, env)

SpecHandlers == InitHandlers /\ [][NextHandlers]_vars

HandlerCalled == call.op \in {"image_apply_metadata", "video_apply_metadata"}

(* C6: a call with dry_run = true leaves the set of files and the content  *)
(* of every file as they were; the video writer then returns success       *)
(* without invoking the external tool.                                     *)
C6_DryRunMutatesNothing ==
  [][(HandlerCalled' /\ call'.dry) =>
       /\ files' = files
       /\ call'.op = "video_apply_metadata" =>
            (call'.ret = "True" /\ ~call'.invoked)]_vars

C6_Witness ==
  /\ call.op = "video_apply_metadata"
  /\ call.dry
  /\ call.md.timestamp
  /\ call.ret = "True"
  /\ call.name \in DOMAIN files
  /\ TempPath(call.name) \notin DOMAIN files

(* C7: when the video writer returns failure the original video has the    *)
(* content it had before the call and the temporary sibling does not       *)
(* exist; the original changes only in a call whose tool exited with 0.    *)
C7_VideoFailureLeavesOriginal ==
  [][(call'.op = "video_apply_metadata") =>
       /\ call'.ret = "False" =>
            /\ TempPath(call'.name) \notin DOMAIN files'
            /\ (call'.name \in DOMAIN files) = (call'.name \in DOMAIN files')
            /\ call'.name \in DOMAIN files =>
                 files'[call'.name] = files[call'.name]
       /\ (/\ call'.name \in DOMAIN files
           /\ call'.name \in DOMAIN files'
           /\ files'[call'.name] # files[call'.name]) =>
            (call'.env.ffmpeg = "zero" /\ call'.ret = "True")]_vars

C7_Witness ==
  /\ call.op = "video_apply_metadata"
  /\ ~call.dry
  /\ call.env.ffmpeg = "nonzero_partial"
  /\ call.ret = "False"
  /\ call.name \in DOMAIN files
  /\ files[call.name] = "orig"
  /\ TempPath(call.name) \notin DOMAIN files

(* C11: a video writer call with dry_run = false, succeeding or failing,   *)
(* leaves every file other than the video it was called on in place with   *)
(* the content it had; in particular a sibling {stem}_temp{suffix} that    *)
(* was there before the call is neither overwritten nor removed.           *)
C11_BatchPreservesOtherFiles ==
  [][(/\ call'.op = "video_apply_metadata"
      /\ ~call'.dry
      /\ call'.ret \in {"True", "False"}) =>
       \A f \in DOMAIN files \ {call'.name} :
          /\ f \in DOMAIN files'
          /\ files'[f] = files[f]]_vars

----------------------------------------------------------------------------
(* Specification of the dispatcher and the batch run: a directory of up to *)
(* MaxBatch media files, each with or without a sidecar; process_file is   *)
(* called on one of its files, or main walks it                            *)

Img1 == <<"I", "M", "G", "_", "1", ".", "J", "P", "G">>

Text == <<"n", ".", "t", "x", "t">>

DispatchMedia == {Img1, Image, Video, TempPath(Video), Text}

(* the directory that holds the media files of S and, for those of them    *)
(* that are in DOMAIN kinds, a sidecar {name}.json of the given kind       *)
DispatchDir(S, kinds) ==
  [f \in S \cup {name \o DotJson : name \in DOMAIN kinds} |->
     IF f \in S THEN "orig" ELSE kinds[Slice(f, 0, Len(f) - Len(DotJson))]]

InitDispatch ==
  /\ \E S \in SUBSET DispatchMedia :
       /\ S # {}
       /\ Cardinality(S) <= MaxBatch
       /\ \E J \in SUBSET S : \E kinds \in [J -> SidecarKinds] :
            files = DispatchDir(S, kinds)
  /\ call = NoCall
  /\ dry_run \in BOOLEAN
  /\ media_files = << >>
  /\ idx = 0
  /\ success_count = 0
  /\ calls = << >>
  /\ pc = "idle"

(* what can happen during the call of the handler of name *)
EnvsFor(name) == IF get_handler(name) = "image" THEN ImageEnvs ELSE VideoEnvs

(* a caller's processor.process_file(name, json_path, dry_run) of          *)
(* processor.py, from the call to its return                               *)
ProcessFile(name, json_path, env) ==
  \E r \in {process_file(files, name, json_path, dry_run, env)} :
      /\ pc = "idle"
      /\ files' = r.files
      /\ call' = [NoCall EXCEPT !.op = "process_file", !.name = name,
                                !.dry = dry_run, !.path = json_path,
                                !.env = env, !.ret = r.ret,
                                !.invoked = r.invoked]
      /\ pc' = IF r.ret = "raised" THEN "crashed" ELSE "returned"
      /\ UNCHANGED <<dry_run, media_files, idx, success_count, calls>>

(* main: the media files are collected and the counters reset *)
Discover(media_type) ==
  /\ pc = "idle"
  /\ \E found \in {Discovered(DOMAIN files, FormatsOf(media_type))} :
       /\ media_files' \in Orderings(found, FormatsOf(media_type))
       /\ calls' = [f \in found |-> << >>]
  /\ idx' = 0
  /\ success_count' = 0
  /\ pc' = "loop"
  /\ UNCHANGED <<files, call, dry_run>>

(* main: one iteration of `for media_path in media_files`; an exception    *)
(* out of process_file ends main                                           *)
ProcessNext(env) ==
  /\ pc = "loop"
  /\ idx < Len(media_files)
  /\ \E media_path \in {media_files[idx + 1]} :
     \E r \in {main_process_file(files, media_path, NoPath, dry_run, env)} :
      /\ files' = r.files
      /\ call' = [NoCall EXCEPT !.op = "main_process_file",
                                !.name = media_path, !.dry = dry_run,
                                !.ret = r.ret, !.invoked = r.invoked]
      /\ calls' = [calls EXCEPT ![media_path] = Append(@, r.ret)]
      /\ IF r.ret = "raised"
         THEN pc' = "crashed" /\ UNCHANGED <<idx, success_count>>
         ELSE /\ pc' = "loop"
              /\ idx' = idx + 1
              /\ success_count' =
                   IF r.ret = "True" THEN success_count + 1 ELSE success_count
      /\ UNCHANGED <<dry_run, media_files>>

(* main: the loop is over and the summary is logged *)
Summary ==
  /\ pc = "loop"
  /\ idx = Len(media_files)
  /\ pc' = "done"
  /\ UNCHANGED <<files, call, dry_run, media_files, idx, success_count, calls>>

NextDispatch ==
  \/ \E name \in DOMAIN files \cap DispatchMedia :
        \E json_path \in {NoPath, name \o DotJson}, env \in EnvsFor(name) :
           ProcessFile(name, json_path, env)
  \/ \E media_type \in {"all", "images", "videos"} : Discover(media_type)
  \/ \E env \in VideoEnvs \cup ImageEnvs :
        /\ pc = "loop" /\ idx < Len(media_files)
        /\ env \in EnvsFor(media_files[idx + 1])
        /\ ProcessNext(env)
  \/ Summary

SpecDispatch == InitDispatch /\ [][NextDispatch]_vars

(* C4: process_file on a supported image whose sidecar {name}.json exists  *)
(* and holds a valid photoTakenTime and geoData, with dry_run = false and  *)
(* no explicit json_path, returns True.                                    *)
C4_EndToEndSuccess ==
  (/\ call.op = "process_file"
   /\ call.name = Img1
   /\ ~call.dry
   /\ call.path = NoPath
   /\ call.env.insert_ok
   /\ Img1 \o DotJson \in DOMAIN files
   /\ files[Img1 \o DotJson] = "valid") => call.ret = "True"

(* the files main has finished with, by what process_file returned *)
Returned(ret) == {f \in DOMAIN calls : calls[f] = <<ret>>}

(* C5: process_file never raises but returns True or False, and the batch  *)
(* loop calls it once for every discovered file whatever the earlier       *)
(* outcomes, so that succeeded + skipped or failed = total.                *)
C5_PerFileIsolation ==
  /\ call.op \in {"process_file", "main_process_file"} =>
       call.ret \in {"True", "False"}
  /\ pc # "crashed"
  /\ pc = "done" =>
       /\ idx = Len(media_files)
       /\ \A f \in DOMAIN calls : Len(calls[f]) = 1
       /\ success_count = Cardinality(Returned("True"))
       /\ success_count + Cardinality(Returned("False")) = Len(media_files)

C5_Witness ==
  /\ pc = "done"
  /\ Len(media_files) = 2
  /\ calls[media_files[1]] = <<"False">>
  /\ calls[media_files[2]] = <<"True">>
  /\ success_count = 1

====
